---- MODULE Spec2Model ----
(***************************************************************************)
(* Model of eventsourcing/domain/model/entity.py: the entity mutation      *)
(* protocol (create / trigger / discard / mutate / publish) and its        *)
(* hash-chain, version and timestamp extensions.                           *)
(*                                                                         *)
(* A Python method that can raise and that mutates its argument in place   *)
(* is an operator returning a record [obj, ret, err]: obj is the state of  *)
(* the object passed in when the call ends (also when it ends by raising), *)
(* ret says whether the call returned the object or None, err is the       *)
(* exception raised ("none" when the call returned).                       *)
(***************************************************************************)
EXTENDS Integers, Sequences, FiniteSets, TLC

\* ---------------------------------------------------------------- bounds
MaxOps == 3          \* calls made on the entity objects in one run
MaxTime == 1         \* largest clock reading
MaxCopyOps == 1      \* calls the second writer makes on its copy
MaxApply == 1        \* events applied to the entity directly, not by its own trigger
MaxInjectedVersion == 2   \* largest originator_version of an event applied directly

Ids == {1, 2}
AttrNames == {"a"}
Values == {1, 2}

\* ------------------------------------------------------------- constants
Classes == {"DomainEntity", "EntityWithHashchain", "VersionedEntity",
            "TimestampedEntity", "TimestampedVersionedEntity"}
TriggerKinds == {"AttributeChanged", "Discarded", "Custom"}

None == [cls |-> "None"]
NoValue == 0                  \* attribute never set
NoVersion == -1               \* class has no ___version__
NoTime == -1                  \* class has no timestamps
NoHash == <<"absent">>        \* class has no __head__ / event has no hash
GENESIS_HASH == <<"genesis">>

HasHash(cls) == cls = "EntityWithHashchain"
HasVersion(cls) == cls \in {"VersionedEntity", "TimestampedVersionedEntity"}
HasTimestamp(cls) == cls \in {"TimestampedEntity", "TimestampedVersionedEntity"}

VARIABLES entity, copy, published, copyPublished, applied, now, op, err, pre, ev, nops, napply, ncopy

vars == <<entity, copy, published, copyPublished, applied, now, op, err, pre, ev, nops, napply, ncopy>>

\* ---------------------------------------------------------------- events
\* The digest of an event's field set (hashing collaborator): deterministic
\* and collision-free, so it is the field set itself.
hash_object(cls, kind, id, prev, name, value) == <<cls, kind, id, prev, name, value>>

\* An event object of class cls.<kind>, as its constructors leave it.
NewEvent(cls, kind, id, prev, version, ts, name, value) ==
    LET n == IF kind = "AttributeChanged" THEN name ELSE ""
        v == IF kind = "AttributeChanged" THEN value ELSE NoValue
    IN  [cls |-> cls, kind |-> kind, originator_id |-> id,
         previous_hash |-> IF HasHash(cls) THEN prev ELSE NoHash,
         event_hash |-> IF HasHash(cls) THEN hash_object(cls, kind, id, prev, n, v)
                        ELSE NoHash,
         originator_version |-> IF HasVersion(cls) THEN version ELSE NoVersion,
         timestamp |-> IF HasTimestamp(cls) THEN ts ELSE NoTime,
         name |-> n,
         value |-> v]

\* ------------------------------------------------------- entity __init__
\* Mutant: __init__ does not store the id it is given.
DomainEntity_init_DropsId(cls, id) ==
    [cls |-> cls, id |-> 0, discarded |-> FALSE, head |-> NoHash,
     version |-> NoVersion, createdOn |-> NoTime, lastModified |-> NoTime,
     attrs |-> [n \in AttrNames |-> NoValue]]

DomainEntity_init(cls, id) ==
    [cls |-> cls, id |-> id, discarded |-> FALSE, head |-> NoHash,
     version |-> NoVersion, createdOn |-> NoTime, lastModified |-> NoTime,
     attrs |-> [n \in AttrNames |-> NoValue]]

EntityWithHashchain_init(obj) == [obj EXCEPT !.head = GENESIS_HASH]

VersionedEntity_init(obj, version) == [obj EXCEPT !.version = version]

TimestampedEntity_init(obj, created_on) ==
    [obj EXCEPT !.createdOn = created_on, !.lastModified = created_on]

\* entity_class(**event.__entity_kwargs__)
Created_entity_kwargs(e) ==
    LET o0 == DomainEntity_init(e.cls, e.originator_id)
        o1 == IF HasHash(e.cls) THEN EntityWithHashchain_init(o0) ELSE o0
        o2 == IF HasVersion(e.cls) THEN VersionedEntity_init(o1, e.originator_version) ELSE o1
        o3 == IF HasTimestamp(e.cls) THEN TimestampedEntity_init(o2, e.timestamp) ELSE o2
    IN  o3

\* ---------------------------------------------------------- __check_obj__
DomainEntity_Event_check_obj(e, obj) ==
    IF obj.id # e.originator_id THEN "OriginatorIDError" ELSE "none"

EntityWithHashchain_Event_check_obj(e, obj) ==
    LET s == DomainEntity_Event_check_obj(e, obj)
    IN  IF s # "none" THEN s
        ELSE IF obj.head # e.previous_hash THEN "HeadHashError" ELSE "none"

\* Mutant: the version check only refuses events that are not ahead.
VersionedEntity_Event_check_obj_AcceptsGaps(e, obj) ==
    LET s == DomainEntity_Event_check_obj(e, obj)
    IN  IF s # "none" THEN s
        ELSE IF e.originator_version <= obj.version THEN "OriginatorVersionError"
        ELSE "none"

VersionedEntity_Event_check_obj(e, obj) ==
    LET s == DomainEntity_Event_check_obj(e, obj)
    IN  IF s # "none" THEN s
        ELSE IF e.originator_version # obj.version + 1 THEN "OriginatorVersionError"
        ELSE "none"

\* The __check_obj__ the event's class resolves to.
check_obj(e, obj) ==
    IF HasHash(e.cls) THEN EntityWithHashchain_Event_check_obj(e, obj)
    ELSE IF HasVersion(e.cls) THEN VersionedEntity_Event_check_obj(e, obj)
    ELSE DomainEntity_Event_check_obj(e, obj)

\* ------------------------------------------------------------ __mutate__
\* What a __mutate__ hands back once the checks gave c.
Checked(obj, c) ==
    [obj |-> obj, ret |-> IF c = "none" THEN "obj" ELSE "raised", err |-> c]

\* events.DomainEvent.__mutate__: the checks, then the event's own mutate().
DomainEvent_mutate(e, obj) == Checked(obj, check_obj(e, obj))

\* setattr(obj, self.name, self.value), r being what the super call returned
DomainEntity_AttributeChanged_setattr(r, e) ==
    IF r.err # "none" THEN r
    ELSE [r EXCEPT !.obj.attrs[e.name] = e.value]

DomainEntity_AttributeChanged_mutate(e, obj) ==
    DomainEntity_AttributeChanged_setattr(DomainEvent_mutate(e, obj), e)

\* entity.__is_discarded__ = True; return None
DomainEntity_Discarded_set_discarded(r) ==
    IF r.err # "none" THEN r
    ELSE [r EXCEPT !.obj.discarded = TRUE, !.ret = "None"]

DomainEntity_Discarded_mutate(e, obj) ==
    DomainEntity_Discarded_set_discarded(DomainEvent_mutate(e, obj))

\* The base-kind step every extension's Event.__mutate__ ends up calling.
Kind_mutate(e, obj) ==
    CASE e.kind = "AttributeChanged" -> DomainEntity_AttributeChanged_mutate(e, obj)
      [] e.kind = "Discarded" -> DomainEntity_Discarded_mutate(e, obj)
      [] OTHER -> DomainEvent_mutate(e, obj)

\* Mutant: the version step leaves ___version__ as it is.
VersionedEntity_Event_set_version_Skipped(r, e) == r

\* if obj is not None: entity.___version__ = self.originator_version
VersionedEntity_Event_set_version(r, e) ==
    IF r.err # "none" THEN r
    ELSE IF r.ret # "None" THEN [r EXCEPT !.obj.version = e.originator_version]
    ELSE r

VersionedEntity_Event_mutate(e, obj) ==
    VersionedEntity_Event_set_version(Kind_mutate(e, obj), e)

\* Mutant: every event also overwrites ___created_on__.
TimestampedEntity_Event_set_last_modified_ResetsCreatedOn(r, e) ==
    IF r.err # "none" THEN r
    ELSE IF r.ret # "None"
         THEN [r EXCEPT !.obj.lastModified = e.timestamp, !.obj.createdOn = e.timestamp]
    ELSE r

\* if obj is not None: obj.___last_modified__ = self.timestamp
TimestampedEntity_Event_set_last_modified(r, e) ==
    IF r.err # "none" THEN r
    ELSE IF r.ret # "None" THEN [r EXCEPT !.obj.lastModified = e.timestamp]
    ELSE r

\* The super call goes to VersionedEntity.Event for the composed class.
TimestampedEntity_Event_mutate(e, obj) ==
    IF HasVersion(e.cls)
    THEN TimestampedEntity_Event_set_last_modified(VersionedEntity_Event_mutate(e, obj), e)
    ELSE TimestampedEntity_Event_set_last_modified(Kind_mutate(e, obj), e)

\* if obj is not None: entity_with_hashchain.__head__ = self.__event_hash__
EntityWithHashchain_Event_set_head(r, e) ==
    IF r.err # "none" THEN r
    ELSE IF r.ret # "None" THEN [r EXCEPT !.obj.head = e.event_hash]
    ELSE r

EntityWithHashchain_Event_mutate(e, obj) ==
    EntityWithHashchain_Event_set_head(Kind_mutate(e, obj), e)

\* entity.__head__ = self.__event_hash__, then the super call
EntityWithHashchain_Discarded_mutate(e, obj) ==
    EntityWithHashchain_Event_mutate(e, [obj EXCEPT !.head = e.event_hash])

\* event.__mutate__(obj) for a non-Created event, by the class's method
\* resolution order.
Event_mutate(e, obj) ==
    IF HasHash(e.cls)
    THEN IF e.kind = "Discarded" THEN EntityWithHashchain_Discarded_mutate(e, obj)
         ELSE EntityWithHashchain_Event_mutate(e, obj)
    ELSE IF HasTimestamp(e.cls) THEN TimestampedEntity_Event_mutate(e, obj)
    ELSE IF HasVersion(e.cls) THEN VersionedEntity_Event_mutate(e, obj)
    ELSE Kind_mutate(e, obj)

\* Created.__mutate__(None): the entity is constructed from the event.
DomainEntity_Created_mutate(e) ==
    [obj |-> Created_entity_kwargs(e), ret |-> "obj", err |-> "none"]

EntityWithHashchain_Created_mutate(e) ==
    EntityWithHashchain_Event_set_head(DomainEntity_Created_mutate(e), e)

Created_mutate(e) ==
    IF HasHash(e.cls) THEN EntityWithHashchain_Created_mutate(e)
    ELSE DomainEntity_Created_mutate(e)

\* DomainEntity.__mutate__(event)
DomainEntity_mutate(obj, e) == Event_mutate(e, obj)

\* ------------------------------------------------------ __trigger_event__
\* Keyword arguments of a trigger before the extensions stamp theirs.
Kwargs(name, value) ==
    [previous_hash |-> NoHash, originator_version |-> NoVersion,
     name |-> name, value |-> value]

\* What a create or trigger leaves: the object, the exception, the event,
\* and whether __publish__ was reached (r is what the mutation returned).
Outcome(r, e) ==
    [obj |-> r.obj, err |-> r.err, event |-> e, publish |-> r.err = "none"]

\* Mutant: the event is published whether or not __mutate__ raised.
DomainEntity_mutate_and_publish_Always(obj, e) ==
    [Outcome(DomainEntity_mutate(obj, e), e) EXCEPT !.publish = TRUE]

\* self.__mutate__(event); self.__publish__(event)
DomainEntity_mutate_and_publish(obj, e) == Outcome(DomainEntity_mutate(obj, e), e)

\* Mutant: the trigger does not look at the discarded flag.
DomainEntity_trigger_event_NoDiscardCheck(obj, kind, kw, clock) ==
    DomainEntity_mutate_and_publish(obj,
        NewEvent(obj.cls, kind, obj.id, kw.previous_hash,
                 kw.originator_version, clock, kw.name, kw.value))

\* DomainEntity.__trigger_event__: refuse if discarded, construct the event
\* (EventWithTimestamp reads the clock), apply it to self, publish it.
DomainEntity_trigger_event(obj, kind, kw, clock) ==
    IF obj.discarded
    THEN [obj |-> obj, err |-> "EntityIsDiscarded", event |-> None, publish |-> FALSE]
    ELSE DomainEntity_mutate_and_publish(obj,
            NewEvent(obj.cls, kind, obj.id, kw.previous_hash,
                     kw.originator_version, clock, kw.name, kw.value))

EntityWithHashchain_trigger_event(obj, kind, kw, clock) ==
    DomainEntity_trigger_event(obj, kind, [kw EXCEPT !.previous_hash = obj.head], clock)

\* Mutant: the trigger stamps the current version, not the next one.
VersionedEntity_trigger_event_StampsCurrent(obj, kind, kw, clock) ==
    DomainEntity_trigger_event(obj, kind,
                               [kw EXCEPT !.originator_version = obj.version], clock)

VersionedEntity_trigger_event(obj, kind, kw, clock) ==
    DomainEntity_trigger_event(obj, kind,
                               [kw EXCEPT !.originator_version = obj.version + 1], clock)

\* obj.__trigger_event__(...) by the class's method resolution order.
trigger_event(obj, kind, kw, clock) ==
    IF HasHash(obj.cls) THEN EntityWithHashchain_trigger_event(obj, kind, kw, clock)
    ELSE IF HasVersion(obj.cls) THEN VersionedEntity_trigger_event(obj, kind, kw, clock)
    ELSE DomainEntity_trigger_event(obj, kind, kw, clock)

\* -------------------------------------------------------------- __create__
\* VersionedEntity.Created.__init__ defaults originator_version to 0.
CreatedVersion == 0

\* obj = event.__mutate__(None); obj.__publish__(event)
DomainEntity_create_from(e) == Outcome(Created_mutate(e), e)

DomainEntity_create(cls, id, prev, clock) ==
    DomainEntity_create_from(
        NewEvent(cls, "Created", id, prev, CreatedVersion, clock, "", NoValue))

EntityWithHashchain_create(cls, id, clock) ==
    DomainEntity_create(cls, id, GENESIS_HASH, clock)

create(cls, id, clock) ==
    IF HasHash(cls) THEN EntityWithHashchain_create(cls, id, clock)
    ELSE DomainEntity_create(cls, id, NoHash, clock)

\* ------------------------------------------------------------------ replay
Raised == [cls |-> "raised"]

\* What the replay carries on with after event.__mutate__(obj) returned r.
ReplayValue(r) ==
    IF r.err # "none" THEN Raised
    ELSE IF r.ret = "None" THEN None
    ELSE r.obj

\* One step of the replay: event.__mutate__(acc).
ReplayStep(acc, e) ==
    IF acc = Raised THEN Raised
    ELSE IF e.kind = "Created"
         THEN IF acc = None THEN ReplayValue(Created_mutate(e)) ELSE Raised
    ELSE IF acc = None THEN Raised
    ELSE ReplayValue(Event_mutate(e, acc))

\* reduce(lambda obj, event: event.__mutate__(obj), history, None): the
\* value a replay of the history ends with, None once an event returned
\* None, Raised once an event raised.
RECURSIVE Replay(_, _)
Replay(history, acc) ==
    IF history = <<>> THEN acc
    ELSE Replay(Tail(history), ReplayStep(acc, Head(history)))

\* ------------------------------------------------------------------- state
Init ==
    /\ entity = None
    /\ copy = None
    /\ published = <<>>
    /\ copyPublished = <<>>
    /\ applied = <<>>
    /\ now = 0
    /\ op = "init"
    /\ err = "none"
    /\ pre = None
    /\ ev = None
    /\ nops = 0
    /\ napply = 0
    /\ ncopy = 0

\* The first writer's object after a create or trigger that ended as r.
EntityAfter(r) ==
    /\ entity' = r.obj
    /\ published' = IF r.publish THEN Append(published, r.event) ELSE published
    /\ applied' = IF r.publish THEN Append(applied, r.event) ELSE applied
    /\ ev' = r.event
    /\ err' = r.err

\* cls.__create__(originator_id=id)
Create(cls, id) ==
    /\ entity = None
    /\ nops < MaxOps
    /\ EntityAfter(create(cls, id, now))
    /\ op' = "create"
    /\ pre' = None
    /\ nops' = nops + 1
    /\ UNCHANGED <<copy, copyPublished, now, napply, ncopy>>

\* A trigger on the first writer's object.
Triggered(kind, name, value, opname) ==
    /\ entity # None
    /\ nops < MaxOps
    /\ EntityAfter(trigger_event(entity, kind, Kwargs(name, value), now))
    /\ op' = opname
    /\ pre' = entity
    /\ nops' = nops + 1
    /\ UNCHANGED <<copy, copyPublished, now, napply, ncopy>>

\* entity.__change_attribute__(name, value)
ChangeAttribute(name, value) == Triggered("AttributeChanged", name, value, "trigger")

\* entity.__trigger_event__(CustomEvent)
TriggerCustom == Triggered("Custom", "", NoValue, "trigger")

\* entity.__discard__()
Discard == Triggered("Discarded", "", NoValue, "discard")

\* Events some other party hands to entity.__mutate__: any kind, either id,
\* any version and timestamp, a previous hash that is the head, the genesis
\* hash or the hash of an earlier event.
InjectedEvents(obj) ==
    { NewEvent(obj.cls, k, id, prev, v, ts, n, val) :
        k \in TriggerKinds, id \in Ids,
        prev \in (IF HasHash(obj.cls)
                  THEN {obj.head, GENESIS_HASH} \cup {published[i].event_hash : i \in DOMAIN published}
                  ELSE {NoHash}),
        v \in (IF HasVersion(obj.cls) THEN 0..MaxInjectedVersion ELSE {NoVersion}),
        ts \in (IF HasTimestamp(obj.cls) THEN 0..MaxTime ELSE {NoTime}),
        n \in AttrNames, val \in Values }

\* The first writer's object after event.__mutate__(entity) returned r.
EntityMutated(r, e) ==
    /\ entity' = r.obj
    /\ applied' = IF r.err = "none" THEN Append(applied, e) ELSE applied
    /\ err' = r.err

\* entity.__mutate__(e) with an event that entity did not trigger itself
ApplyEvent(e) ==
    /\ entity # None
    /\ nops < MaxOps
    /\ napply < MaxApply
    /\ EntityMutated(DomainEntity_mutate(entity, e), e)
    /\ ev' = e
    /\ op' = "apply"
    /\ pre' = entity
    /\ nops' = nops + 1
    /\ napply' = napply + 1
    /\ UNCHANGED <<copy, published, copyPublished, now, ncopy>>

\* A second writer takes its own copy of the entity.
Fork ==
    /\ entity # None
    /\ copy = None
    /\ copy' = entity
    /\ op' = "fork"
    /\ UNCHANGED <<entity, published, copyPublished, applied, now, err, pre, ev, nops, napply, ncopy>>

\* The second writer's object after a trigger that ended as r.
CopyAfter(r) ==
    /\ copy' = r.obj
    /\ copyPublished' = IF r.publish THEN Append(copyPublished, r.event) ELSE copyPublished
    /\ ev' = r.event
    /\ err' = r.err

\* The second writer triggers an event on its copy.
CopyTrigger(kind, name, value) ==
    /\ copy # None
    /\ ncopy < MaxCopyOps
    /\ CopyAfter(trigger_event(copy, kind, Kwargs(name, value), now))
    /\ op' = "triggerCopy"
    /\ pre' = copy
    /\ ncopy' = ncopy + 1
    /\ UNCHANGED <<entity, published, applied, now, nops, napply>>

\* The clock advances.
Tick ==
    /\ now < MaxTime
    /\ now' = now + 1
    /\ op' = "tick"
    /\ UNCHANGED <<entity, copy, published, copyPublished, applied, err, pre, ev, nops, napply, ncopy>>

Next ==
    \/ \E cls \in Classes, id \in Ids : Create(cls, id)
    \/ \E n \in AttrNames, v \in Values : ChangeAttribute(n, v)
    \/ TriggerCustom
    \/ Discard
    \/ \E e \in InjectedEvents(entity) \cup {copyPublished[i] : i \in DOMAIN copyPublished} :
          ApplyEvent(e)
    \/ Fork
    \/ \E k \in TriggerKinds, n \in AttrNames, v \in Values : CopyTrigger(k, n, v)
    \/ Tick

Spec == Init /\ [][Next]_vars

\* One writer: the entity only sees the events it triggers itself.
NextSingleWriter ==
    \/ \E cls \in Classes, id \in Ids : Create(cls, id)
    \/ \E n \in AttrNames, v \in Values : ChangeAttribute(n, v)
    \/ TriggerCustom
    \/ Discard
    \/ Tick

SingleWriterSpec == Init /\ [][NextSingleWriter]_vars

\* Mutant: the exception of a subscriber is swallowed.
PublishRaised_Swallowed(r) == [r EXCEPT !.publish = FALSE]

\* DomainEntity.__publish__ when a subscriber raises: the exception leaves
\* the trigger after self.__mutate__(event) has run (r is what the trigger
\* had reached before the publish call).
PublishRaised(r) ==
    [r EXCEPT !.err = IF r.err = "none" THEN "PublishError" ELSE r.err,
              !.publish = FALSE]

\* The first writer's object after a trigger whose publish call raised:
\* nothing is delivered, and nothing that __mutate__ did is undone.
EntityAfterPublishRaised(r) ==
    /\ entity' = r.obj
    /\ published' = published
    /\ applied' = IF r.err = "PublishError" THEN Append(applied, r.event) ELSE applied
    /\ ev' = r.event
    /\ err' = r.err

\* A trigger on the first writer's object while a subscriber raises.
TriggeredPublishRaises(kind, name, value, opname) ==
    /\ entity # None
    /\ nops < MaxOps
    /\ EntityAfterPublishRaised(
          PublishRaised(trigger_event(entity, kind, Kwargs(name, value), now)))
    /\ op' = opname
    /\ pre' = entity
    /\ nops' = nops + 1
    /\ UNCHANGED <<copy, copyPublished, now, napply, ncopy>>

\* entity.__change_attribute__(name, value), a subscriber raises
ChangeAttributePublishRaises(name, value) ==
    TriggeredPublishRaises("AttributeChanged", name, value, "trigger")

\* entity.__trigger_event__(CustomEvent), a subscriber raises
TriggerCustomPublishRaises == TriggeredPublishRaises("Custom", "", NoValue, "trigger")

\* entity.__discard__(), a subscriber raises
DiscardPublishRaises == TriggeredPublishRaises("Discarded", "", NoValue, "discard")

\* cls.__create__(originator_id=id), a subscriber raises: the exception
\* leaves __create__ before `return obj`, the caller gets no entity.
CreatePublishRaises(cls, id) ==
    /\ entity = None
    /\ nops < MaxOps
    /\ ev' = PublishRaised(create(cls, id, now)).event
    /\ err' = PublishRaised(create(cls, id, now)).err
    /\ op' = "create"
    /\ pre' = None
    /\ nops' = nops + 1
    /\ UNCHANGED <<entity, published, applied, copy, copyPublished, now, napply, ncopy>>

\* One writer whose subscribers may raise.
NextPublishFailure ==
    \/ \E cls \in Classes, id \in Ids : Create(cls, id)
    \/ \E n \in AttrNames, v \in Values : ChangeAttribute(n, v)
    \/ TriggerCustom
    \/ Discard
    \/ \E cls \in Classes, id \in Ids : CreatePublishRaises(cls, id)
    \/ \E n \in AttrNames, v \in Values : ChangeAttributePublishRaises(n, v)
    \/ TriggerCustomPublishRaises
    \/ DiscardPublishRaises
    \/ Tick

PublishFailureSpec == Init /\ [][NextPublishFailure]_vars

TypeOK ==
    /\ nops \in 0..MaxOps
    /\ now \in 0..MaxTime
    /\ Len(published) <= nops
    /\ (entity = None) = (published = <<>>)

\* ----------------------------------------------------------------- helpers
Last(s) == s[Len(s)]
Range(s) == {s[i] : i \in DOMAIN s}
NonDecreasingTimestamps(s) ==
    \A i \in DOMAIN s : \A j \in DOMAIN s : i <= j => s[i].timestamp <= s[j].timestamp

\* ------------------------------------------------------------------ claims

\* C1: for a versioned entity the version is the number of successful
\* triggers since create(): 0 after create(), k after k published events of
\* any kind, the Discarded event of discard() included.
C1_VersionCountsTriggers ==
    (entity # None /\ HasVersion(entity.cls)) => entity.version = Len(published) - 1

\* C2: on a hash-chained entity an event of any kind whose previous hash is
\* not the entity's head is refused with HeadHashError and the entity is
\* left exactly as it was.
C2_StaleHashLeavesEntityUnchanged ==
    (op = "apply" /\ HasHash(pre.cls) /\ ev.originator_id = pre.id
        /\ ev.previous_hash # pre.head)
    => (err = "HeadHashError" /\ entity = pre)

\* C3: on a versioned entity (timestamped+versioned included) an event whose
\* originator version is not version + 1 is refused with
\* OriginatorVersionError and no field of the entity changes.
C3_WrongVersionLeavesEntityUnchanged ==
    (op = "apply" /\ HasVersion(pre.cls) /\ ev.originator_id = pre.id
        /\ ev.originator_version # pre.version + 1)
    => (err = "OriginatorVersionError" /\ entity = pre)

C3_Witness ==
    /\ op = "apply"
    /\ pre.cls = "TimestampedVersionedEntity"
    /\ ev.originator_id = pre.id
    /\ ev.originator_version > pre.version + 1
    /\ ev.kind = "AttributeChanged"
    /\ ev.timestamp # pre.lastModified
    /\ ev.value # pre.attrs[ev.name]
    /\ err = "OriginatorVersionError"

\* C4: the head of a hash-chained entity is always the hash of the event
\* most recently applied to it, the Created event right after create().
C4_HeadIsLastAppliedHash ==
    (entity # None /\ HasHash(entity.cls)) => entity.head = Last(applied).event_hash

\* C5: a trigger or discard on a discarded entity is refused with
\* EntityIsDiscarded before an event is constructed: nothing is applied,
\* nothing is published, the entity is unchanged.
C5_DiscardedRefusesTriggers ==
    [][(entity # None /\ entity.discarded /\ op' \in {"trigger", "discard"})
        => (/\ err' = "EntityIsDiscarded"
            /\ ev' = None
            /\ entity' = entity
            /\ published' = published
            /\ applied' = applied)]_vars

C5_Witness ==
    /\ op \in {"trigger", "discard"}
    /\ pre # None
    /\ pre.discarded
    /\ Last(published).kind = "Discarded"
    /\ err = "EntityIsDiscarded"
    /\ entity = pre

\* C6: replaying the events an entity published, from no object, ends with
\* a state equal to the entity that triggered them (stated for the entities
\* that are still live, where the replay ends with an object).
C6_ReplayEqualsLiveEntity ==
    (entity # None /\ ~entity.discarded) => Replay(published, None) = entity

\* C7 as claimed: a trigger on a stale copy, after the first writer advanced
\* the entity, is refused with OriginatorVersionError.
C7_StaleTriggerRejected ==
    (op = "triggerCopy" /\ HasVersion(pre.cls) /\ ~pre.discarded
        /\ entity.version > pre.version)
    => err = "OriginatorVersionError"

\* C7 as amended: a trigger on a stale copy at version v succeeds and stamps
\* its event with version v + 1; the conflict shows only when that event is
\* applied to the entity the first writer already advanced, which refuses
\* it with OriginatorVersionError and stays unchanged.
C7_StaleEventRejectedOnApply ==
    /\ (op = "triggerCopy" /\ HasVersion(pre.cls) /\ ~pre.discarded)
       => (err = "none" /\ ev.originator_version = pre.version + 1
           /\ Last(copyPublished) = ev)
    /\ (op = "apply" /\ HasVersion(pre.cls) /\ ev \in Range(copyPublished)
           /\ pre.version >= ev.originator_version)
       => (err = "OriginatorVersionError" /\ entity = pre)

C7_Witness ==
    /\ op = "apply"
    /\ HasVersion(pre.cls)
    /\ ev \in Range(copyPublished)
    /\ Len(published) >= 2
    /\ pre.version = ev.originator_version
    /\ err = "OriginatorVersionError"

C9_LastModifiedMonotone ==
    [][(entity' # None /\ HasTimestamp(entity'.cls) /\ NonDecreasingTimestamps(applied'))
        => (/\ entity'.createdOn = applied'[1].timestamp
            /\ entity'.lastModified >= entity'.createdOn
            /\ entity # None => entity'.lastModified >= entity.lastModified)]_vars

C9_Witness ==
    /\ entity # None
    /\ HasTimestamp(entity.cls)
    /\ NonDecreasingTimestamps(applied)
    /\ Len(applied) >= 3
    /\ entity.lastModified > entity.createdOn

\* C10: an event whose originator id is not the entity's id is refused with
\* OriginatorIDError, whatever its version and previous hash, and no field
\* of the entity changes.
C10_WrongIdLeavesEntityUnchanged ==
    (op = "apply" /\ ev.originator_id # pre.id)
    => (err = "OriginatorIDError" /\ entity = pre)

RECURSIVE IsSubsequence(_, _)
\* s can be obtained from t by leaving events out, the order kept.
IsSubsequence(s, t) ==
    IF s = <<>> THEN TRUE
    ELSE IF t = <<>> THEN FALSE
    ELSE IF Head(s) = Head(t) THEN IsSubsequence(Tail(s), Tail(t))
    ELSE IsSubsequence(s, Tail(t))

\* C11: a discarded entity accepts no event by any path: an event handed to
\* entity.__mutate__ is refused and changes nothing, also when its id,
\* version and previous hash are the ones the entity expects.
C11_DiscardedRefusesAppliedEvents ==
    (op = "apply" /\ pre.discarded) => (err # "none" /\ entity = pre)

\* C12: on a timestamped entity lastModified is the timestamp of the event
\* applied last, whatever its kind, the Discarded event included.
C12_LastModifiedIsLastTimestamp ==
    (entity # None /\ HasTimestamp(entity.cls))
    => entity.lastModified = Last(applied).timestamp

\* C13: with one writer a trigger or discard on an entity that is not
\* discarded never fails a check, on any class and for any kind.
C13_OwnTriggerNeverFailsCheck ==
    (op \in {"trigger", "discard"} /\ ~pre.discarded) => err = "none"

\* C14: the events a hash-chained entity published form a chain: the
\* Created event's previous hash is the genesis hash and every later
\* event's previous hash is the hash of the event published before it.
C14_PublishedChainUnbroken ==
    (entity # None /\ HasHash(entity.cls))
    => /\ published[1].previous_hash = GENESIS_HASH
       /\ \A i \in DOMAIN published :
            i > 1 => published[i].previous_hash = published[i - 1].event_hash

\* C15: a create or trigger that returns has published exactly its one
\* event, after the checks passed and the entity was mutated by it; one that
\* raises has published nothing; events are published in the order in which
\* they were applied.
C15_PublishOnlyAfterMutation ==
    [][op' \in {"create", "trigger", "discard"}
        => (/\ err' = "none"
               => (/\ published' = Append(published, ev')
                   /\ applied' = Append(applied, ev')
                   /\ entity # None
                      => (/\ check_obj(ev', entity) = "none"
                          /\ entity' = Event_mutate(ev', entity).obj))
            /\ err' # "none" => published' = published
            /\ IsSubsequence(published', applied'))]_vars

C15_Witness ==
    /\ op \in {"trigger", "discard"}
    /\ err \in {"HeadHashError", "EntityIsDiscarded"}
    /\ Len(published) = 2
    /\ published[2].kind # "Created"
    /\ published = applied

\* C16: on the timestamped+versioned entity every event applied with
\* success, AttributeChanged or Discarded, leaves the version at the event's
\* originator version and lastModified at the event's timestamp, next to the
\* kind's own update.
C16_EveryExtensionStepRuns ==
    (op \in {"trigger", "discard", "apply"} /\ err = "none"
        /\ pre.cls = "TimestampedVersionedEntity")
    => (/\ entity.version = ev.originator_version
        /\ entity.lastModified = ev.timestamp
        /\ ev.kind = "AttributeChanged" => entity.attrs[ev.name] = ev.value
        /\ ev.kind = "Discarded" => entity.discarded)

\* C17 as claimed: the events a versioned entity published carry the
\* versions 0, 1, 2, ... in publish order, without gap or duplicate.
C17_PublishedVersionsConsecutive ==
    (entity # None /\ HasVersion(entity.cls))
    => \A i \in DOMAIN published : published[i].originator_version = i - 1

\* C17 as amended: the published versions start at 0 with the Created event
\* and increase strictly; they are consecutive as long as no publish call
\* raised (every applied event was published). The applied events always
\* carry 0, 1, 2, ..., so a trigger whose publish raised leaves a gap.
C17_PublishedVersionsIncreasing ==
    (entity # None /\ HasVersion(entity.cls))
    => (/\ published[1].kind = "Created"
        /\ published[1].originator_version = CreatedVersion
        /\ \A i \in DOMAIN published : \A j \in DOMAIN published :
             i < j => published[i].originator_version < published[j].originator_version
        /\ \A i \in DOMAIN applied : applied[i].originator_version = i - 1
        /\ IsSubsequence(published, applied)
        /\ Len(published) = Len(applied)
           => \A i \in DOMAIN published : published[i].originator_version = i - 1)

C17_Witness ==
    /\ entity # None
    /\ HasVersion(entity.cls)
    /\ Len(published) = 3
    /\ Last(published).kind = "Discarded"
    /\ Last(published).originator_version = 2
    /\ published = applied

====
